---- MODULE Spec2Model ----
(***************************************************************************)
(* Sales data pipeline: ingestion, record validation, duplicate            *)
(* resolution, exception categorisation, transformation, aggregation and   *)
(* audit logging (src/src/pipeline.py, src/src/validator.py,               *)
(* src/src/exception_handler.py, src/src/transformer.py,                   *)
(* src/src/audit_logger.py).                                               *)
(*                                                                         *)
(* A cell of a DataFrame is modelled as an optional value: NaN is <<>>,    *)
(* a present value v is <<v>>.  A DataFrame is a sequence of               *)
(* [idx, row] pairs: idx is the pandas index label of the row.             *)
(***************************************************************************)
EXTENDS Integers, Sequences, FiniteSets, TLC

VARIABLES
    csv_columns,         \* the header of the CSV file handed to run_pipeline
    audit_db,            \* whether writes to the audit_log table succeed
    source_file,         \* the rows of the CSV file handed to run_pipeline
    raw_df,              \* pipeline.py:28  raw_df = self._ingest_data(...)
    valid_df,            \* pipeline.py:108 first result of validate_records
    invalid_df,          \* pipeline.py:108 second result of validate_records
    clean_df,            \* pipeline.py:111 clean_df = check_duplicates(clean_df)
    validation_results,  \* validator.py:13 DataValidator.validation_results
    exceptions,          \* rows of the exceptions table (exception_handler.py:100)
    clean_sales,         \* rows of the clean_sales table (transformer.py:60)
    analytics_summary,   \* rows of the analytics_summary table
    audit_log,           \* rows of the audit_log table (audit_logger.py:64)
    aggregated,          \* the aggregations that have written analytics_summary
    exc,                 \* the message of the exception run_pipeline caught
    result,              \* the dict run_pipeline returned
    escaped,             \* an exception left run_pipeline
    pc                   \* position of run_pipeline

vars == <<csv_columns, audit_db, source_file, raw_df, valid_df, invalid_df, clean_df,
          validation_results, exceptions, clean_sales, analytics_summary,
          audit_log, aggregated, exc, result, escaped, pc>>

----------------------------------------------------------------------------
(* Cells *)

NaN == <<>>

Val(v) == <<v>>

isna(c) == c = NaN

notna(c) == c # NaN

\* the value of a present cell
get(c) == c[1]

----------------------------------------------------------------------------
(* Bounds and input domains *)

\* longest multi-record batch
MaxLen == 4

\* strings pd.to_datetime parses (validator.py:101)
ParseableDates == {"2024-01-15", "2024-01-16"}

valid_regions == {"North", "South", "East", "West", "Central"}

Rec(id, d, r, p, q, v) ==
    [order_id |-> id, order_date |-> d, region |-> r, product |-> p,
     quantity |-> q, revenue |-> v]

\* every combination of the field cases the rules distinguish
AllRecords ==
    { Rec(id, d, r, Val("Tomato Ketchup 500g"), q, v) :
        id \in {NaN, Val(""), Val("A")},
        d  \in {NaN, Val("invalid_date"), Val("not-a-date"), Val("2024-01-15")},
        r  \in {NaN, Val(""), Val("North"), Val("Mars")},
        q  \in {NaN, Val(-1), Val(0), Val(5)},
        v  \in {NaN, Val(-10), Val(0), Val(100)} }

\* the records multi-record batches are built from
SampleRecords ==
    { Rec(Val("A"), Val("2024-01-15"), Val("North"), Val("Tomato Ketchup 500g"), Val(5), Val(100)),
      Rec(Val("A"), Val("2024-01-15"), Val("North"), Val("Tomato Ketchup 500g"), Val(3), Val(60)),
      Rec(Val("B"), Val("2024-01-16"), Val("South"), Val("Paneer Curry Ready Meal"), Val(2), Val(40)),
      Rec(Val(""),  Val("2024-01-15"), Val("South"), Val("Paneer 200g"), Val(2), Val(20)),
      Rec(Val("A"), NaN, Val("North"), Val("Tomato Ketchup 500g"), Val(0), Val(10)),
      Rec(Val("B"), Val("not-a-date"), Val("East"), Val("Mango Juice 1L"), Val(1), Val(30)),
      Rec(Val("B"), Val("2024-01-15"), Val("Mars"), Val("Mango Juice 1L"), Val(1), Val(-5)) }

SeqsUpTo(S, n) == UNION { [1..k -> S] : k \in 0..n }

Batches == SeqsUpTo(SampleRecords, MaxLen) \cup [1..1 -> AllRecords]

----------------------------------------------------------------------------
(* DataFrame helpers *)

\* the rows of df at the positions in keep, in their original order
RECURSIVE TakeRows(_, _, _)
TakeRows(df, keep, i) ==
    IF i > Len(df) THEN <<>>
    ELSE (IF i \in keep THEN <<df[i]>> ELSE <<>>) \o TakeRows(df, keep, i + 1)

\* pd.read_csv: rows are labelled 0..n-1 and an empty text field is read as NaN
NaCell(c) == IF c = Val("") THEN NaN ELSE c

read_csv(file) ==
    [ i \in 1..Len(file) |->
        [ idx |-> i - 1,
          row |-> [ order_id   |-> NaCell(file[i].order_id),
                    order_date |-> NaCell(file[i].order_date),
                    region     |-> NaCell(file[i].region),
                    product    |-> NaCell(file[i].product),
                    quantity   |-> file[i].quantity,
                    revenue    |-> file[i].revenue ] ] ]

----------------------------------------------------------------------------
(* DataValidator (src/src/validator.py) *)

\* validator.py:107-115 _log_validation_failure: the entry it appends
Failure(record_id, stage, control_type, reason) ==
    [record_id |-> record_id, stage |-> stage, control_type |-> control_type,
     status |-> "FAILED", reason |-> reason]

\* validator.py:117-125 _log_validation_success: the entry it appends
Success(record_id, stage, control_type) ==
    [record_id |-> record_id, stage |-> stage, control_type |-> control_type,
     status |-> "PASSED", reason |-> "None"]

\* pipeline.py:93-94: the columns of the frame _ingest_data returns
original_columns ==
    {"order_id", "order_date", "region", "product", "quantity", "revenue"}

\* validator.py:17
required_columns ==
    {"order_id", "order_date", "region", "product", "quantity", "revenue"}

\* validator.py:15-31 validate_schema: False iff a required column is missing
validate_schema(columns) == required_columns \ columns = {}

\* pd.to_datetime(date_value) raises on a string that is no date
to_datetime_raises(text) == text \notin ParseableDates

\* validator.py:89-105 _validate_date; every cell of the date column is a string
validate_date(date_value, record_idx, log) ==
    IF isna(date_value)
    THEN [ok |-> FALSE,
          log |-> Append(log, Failure(record_idx, "DATE_VALIDATION", "MISSING_DATE",
                                      "Order date is missing"))]
    ELSE IF get(date_value) = "invalid_date"
    THEN [ok |-> FALSE,
          log |-> Append(log, Failure(record_idx, "DATE_VALIDATION", "INVALID_FORMAT",
                                      "Invalid date format: " \o get(date_value)))]
    ELSE IF to_datetime_raises(get(date_value))
    THEN [ok |-> FALSE,
          log |-> Append(log, Failure(record_idx, "DATE_VALIDATION", "PARSE_ERROR",
                                      "Cannot parse date: " \o get(date_value)))]
    ELSE [ok |-> TRUE, log |-> log]

\* the conditions of the rules of validate_records
MissingOrderId(row) == isna(row.order_id) \/ row.order_id = Val("")

MissingRegion(row) == isna(row.region) \/ row.region = Val("")

NegativeRevenue(row) == notna(row.revenue) /\ get(row.revenue) < 0

InvalidQuantityNegativeOnly(row) == notna(row.quantity) /\ get(row.quantity) < 0

InvalidQuantity(row) == notna(row.quantity) /\ get(row.quantity) <= 0

InvalidRegion(row) == notna(row.region) /\ get(row.region) \notin valid_regions

\* a rule that is skipped once an earlier rule of the record has failed
CheckUnlessFailed(s, violated, entry) ==
    IF violated /\ s.record_valid
    THEN [record_valid |-> FALSE, log |-> Append(s.log, entry)]
    ELSE s

\* "if <violated>: self._log_validation_failure(...); record_valid = False"
Check(s, violated, entry) ==
    IF violated
    THEN [record_valid |-> FALSE, log |-> Append(s.log, entry)]
    ELSE s

\* validator.py:39-67: the rules of one row, all evaluated, in the code's order
EvaluateRow(idx, row, log) ==
    LET s0 == [record_valid |-> TRUE, log |-> log]
        s1 == Check(s0, MissingOrderId(row),
                    Failure(idx, "NULL_CHECK", "MISSING_ORDER_ID", "Order ID is null or empty"))
        s2 == Check(s1, MissingRegion(row),
                    Failure(idx, "NULL_CHECK", "MISSING_REGION", "Region is null or empty"))
        d  == validate_date(row.order_date, idx, s2.log)
        s3 == [record_valid |-> s2.record_valid /\ d.ok, log |-> d.log]
        s4 == Check(s3, NegativeRevenue(row),
                    Failure(idx, "BUSINESS_RULE", "NEGATIVE_REVENUE",
                            "Revenue is negative: " \o ToString(get(row.revenue))))
        s5 == Check(s4, InvalidQuantity(row),
                    Failure(idx, "BUSINESS_RULE", "INVALID_QUANTITY",
                            "Quantity is zero or negative: " \o ToString(get(row.quantity))))
    IN  Check(s5, InvalidRegion(row),
              Failure(idx, "BUSINESS_RULE", "INVALID_REGION",
                      "Invalid region: " \o get(row.region)))

\* a row that is appended to invalid_records whatever its verdict
CollectNoElse(acc, e, s) ==
    [valid   |-> IF s.record_valid THEN Append(acc.valid, e) ELSE acc.valid,
     invalid |-> Append(acc.invalid, e),
     log     |-> IF s.record_valid
                 THEN Append(s.log, Success(e.idx, "RECORD_VALIDATION", "PASSED"))
                 ELSE s.log]

\* an accepted row that is collected without its PASSED entry
CollectNoSuccessLog(acc, e, s) ==
    [valid   |-> IF s.record_valid THEN Append(acc.valid, e) ELSE acc.valid,
     invalid |-> IF s.record_valid THEN acc.invalid ELSE Append(acc.invalid, e),
     log     |-> s.log]

\* validator.py:69-73: the row goes to exactly one of the two lists
Collect(acc, e, s) ==
    IF s.record_valid
    THEN [valid   |-> Append(acc.valid, e),
          invalid |-> acc.invalid,
          log     |-> Append(s.log, Success(e.idx, "RECORD_VALIDATION", "PASSED"))]
    ELSE [valid   |-> acc.valid,
          invalid |-> Append(acc.invalid, e),
          log     |-> s.log]

\* validator.py:38 for idx, row in df.iterrows()
RECURSIVE ValidateFrom(_, _, _)
ValidateFrom(df, i, acc) ==
    IF i > Len(df) THEN acc
    ELSE ValidateFrom(df, i + 1,
                      Collect(acc, df[i], EvaluateRow(df[i].idx, df[i].row, acc.log)))

\* validator.py:33-75 validate_records: [valid, invalid] and the log it leaves
validate_records(df, log) ==
    ValidateFrom(df, 1, [valid |-> <<>>, invalid |-> <<>>, log |-> log])

\* df.duplicated(subset=['order_id'], keep='first'): the later occurrences only
duplicated_keep_first(df) ==
    { i \in 1..Len(df) :
        \E j \in 1..(i - 1) : df[j].row.order_id = df[i].row.order_id }

\* validator.py:79 df.duplicated(subset=['order_id'], keep=False): the positions
\* of every row whose order_id occurs more than once
duplicated(df) ==
    { i \in 1..Len(df) :
        \E j \in 1..Len(df) : j # i /\ df[j].row.order_id = df[i].row.order_id }

\* df.drop_duplicates(subset=['order_id'], keep='last')
drop_duplicates_keep_last(df) ==
    TakeRows(df, { i \in 1..Len(df) :
                     \A j \in (i + 1)..Len(df) : df[j].row.order_id # df[i].row.order_id }, 1)

\* validator.py:87 df.drop_duplicates(subset=['order_id'], keep='first')
drop_duplicates(df) ==
    TakeRows(df, { i \in 1..Len(df) :
                     \A j \in 1..(i - 1) : df[j].row.order_id # df[i].row.order_id }, 1)

\* validator.py:81-85: one FAILED entry per row of duplicates, in row order
RECURSIVE LogDuplicates(_, _, _)
LogDuplicates(duplicates, i, log) ==
    IF i > Len(duplicates) THEN log
    ELSE LogDuplicates(duplicates, i + 1,
            Append(log, Failure(duplicates[i].idx, "DUPLICATE_CHECK", "DUPLICATE_ORDER_ID",
                                "Duplicate order ID: " \o get(duplicates[i].row.order_id))))

\* validator.py:77-87 check_duplicates: the returned frame and the log it leaves
check_duplicates(df, log) ==
    [df  |-> drop_duplicates(df),
     log |-> LogDuplicates(TakeRows(df, duplicated(df), 1), 1, log)]

----------------------------------------------------------------------------
(* ExceptionHandler (src/src/exception_handler.py) *)

\* the revenue test placed before the order_id test
categorize_error_revenue_first(record) ==
    IF notna(record.revenue) /\ get(record.revenue) < 0
    THEN "BUSINESS_RULE_VIOLATION"
    ELSE IF isna(record.order_id) \/ record.order_id = Val("")
    THEN "MISSING_REQUIRED_FIELD"
    ELSE IF isna(record.order_date) \/ record.order_date = Val("invalid_date")
    THEN "DATA_FORMAT_ERROR"
    ELSE IF notna(record.quantity) /\ get(record.quantity) <= 0
    THEN "BUSINESS_RULE_VIOLATION"
    ELSE "DATA_QUALITY_ISSUE"

\* exception_handler.py:46-57 _categorize_error
categorize_error(record) ==
    IF isna(record.order_id) \/ record.order_id = Val("")
    THEN "MISSING_REQUIRED_FIELD"
    ELSE IF notna(record.revenue) /\ get(record.revenue) < 0
    THEN "BUSINESS_RULE_VIOLATION"
    ELSE IF isna(record.order_date) \/ record.order_date = Val("invalid_date")
    THEN "DATA_FORMAT_ERROR"
    ELSE IF notna(record.quantity) /\ get(record.quantity) <= 0
    THEN "BUSINESS_RULE_VIOLATION"
    ELSE "DATA_QUALITY_ISSUE"

\* str.join: the items of a list with sep between them
RECURSIVE join(_, _)
join(sep, items) ==
    IF items = <<>> THEN ""
    ELSE IF Len(items) = 1 THEN items[1]
    ELSE items[1] \o sep \o join(sep, Tail(items))

\* exception_handler.py:61-82: the reasons _generate_error_details collects
error_reasons(record) ==
       (IF isna(record.order_id) \/ record.order_id = Val("")
        THEN <<"Missing order ID">> ELSE <<>>)
    \o (IF isna(record.region) \/ record.region = Val("")
        THEN <<"Missing region">> ELSE <<>>)
    \o (IF isna(record.order_date) THEN <<"Missing order date">>
        ELSE IF record.order_date = Val("invalid_date")
        THEN <<"Invalid date format">> ELSE <<>>)
    \o (IF notna(record.revenue) /\ get(record.revenue) < 0
        THEN <<"Negative revenue: " \o ToString(get(record.revenue))>> ELSE <<>>)
    \o (IF notna(record.quantity) /\ get(record.quantity) <= 0
        THEN <<"Invalid quantity: " \o ToString(get(record.quantity))>> ELSE <<>>)
    \o (IF notna(record.region) /\ get(record.region) \notin valid_regions
        THEN <<"Invalid region: " \o get(record.region)>> ELSE <<>>)

\* exception_handler.py:59-84 _generate_error_details
generate_error_details(record) ==
    LET errors == error_reasons(record)
    IN  IF errors # <<>> THEN join("; ", errors) ELSE "Unknown error"

\* exception_handler.py:21-36: the exception record of each invalid row
exception_data(invalid_records, pipeline_stage) ==
    [ i \in 1..Len(invalid_records) |->
        [ original_record_id |-> invalid_records[i].idx,
          error_category     |-> categorize_error(invalid_records[i].row),
          pipeline_stage     |-> pipeline_stage,
          error_details      |-> generate_error_details(invalid_records[i].row),
          raw_data           |-> invalid_records[i].row ] ]

----------------------------------------------------------------------------
(* Tables and audit events *)

\* pipeline.py:14 self.run_id
run_id == "run-1"

\* datetime.now().date() at the time of the run (pipeline.py:170, transformer.py:76)
current_date == <<2024, 2, 1>>

\* a DELETE without the WHERE clause
delete_all(table, rid) == <<>>

\* "DELETE FROM <table> WHERE run_id = :run_id"
RECURSIVE delete_by_run(_, _)
delete_by_run(table, rid) ==
    IF table = <<>> THEN <<>>
    ELSE (IF Head(table).run_id = rid THEN <<>> ELSE <<Head(table)>>)
         \o delete_by_run(Tail(table), rid)

\* audit_logger.py:60-76 _log_to_db: the row it inserts
AuditEvent(event_type, record_count) ==
    [run_id |-> run_id, event_type |-> event_type, record_count |-> record_count]

\* the outcomes an INSERT INTO audit_log can have
AuditWrites == IF audit_db = "up" THEN {TRUE} ELSE BOOLEAN

\* audit_logger.py:60-74 _log_to_db, once per event: the events whose INSERT
\* succeeds are in the table
log_to_db(log, events, oks) ==
    log \o TakeRows(events, { k \in 1..Len(events) : oks[k] }, 1)

\* a _log_to_db that lets the exception of a failed INSERT out
log_to_db_except_uncaught(oks, next) ==
    IF \A k \in DOMAIN oks : oks[k] THEN next ELSE "failed"

\* audit_logger.py:75-76: the exception of a failed INSERT is caught and the
\* caller goes on to its next position
log_to_db_except(oks, next) == next

\* df['revenue'].sum(): NaN cells are skipped
RECURSIVE revenue_sum(_)
revenue_sum(df) ==
    IF df = <<>> THEN 0
    ELSE (IF isna(Head(df).row.revenue) THEN 0 ELSE get(Head(df).row.revenue))
         + revenue_sum(Tail(df))

\* df[mask]: the rows of df that satisfy keep
where(df, keep(_)) == TakeRows(df, { i \in 1..Len(df) : keep(df[i].row) }, 1)

\* one row of analytics_summary (daily_sales repeats total_revenue)
Summary(revenue, orders, region, product, calculation_date) ==
    [run_id |-> run_id, total_revenue |-> revenue, total_orders |-> orders,
     region |-> region, product |-> product, calculation_date |-> calculation_date]

----------------------------------------------------------------------------
(* DataTransformer (src/src/transformer.py) *)

\* pd.to_datetime(text).dt.date of the strings pd.to_datetime parses
to_date(text) ==
    CASE text = "2024-01-15" -> <<2024, 1, 15>>
      [] text = "2024-01-16" -> <<2024, 1, 16>>

\* str.title() of the region names
title(text) ==
    CASE text = "North"   -> "North"
      [] text = "South"   -> "South"
      [] text = "East"    -> "East"
      [] text = "West"    -> "West"
      [] text = "Central" -> "Central"

\* (revenue / quantity).round(2), in hundredths, halves to even
revenue_per_unit(revenue, quantity) ==
    IF isna(revenue) \/ isna(quantity) THEN NaN
    ELSE LET n == 100 * get(revenue)
             q == get(quantity)
             f == n \div q
             r == n % q
         IN  Val(IF 2 * r > q \/ (2 * r = q /\ f % 2 = 1) THEN f + 1 ELSE f)

\* transformer.py:18-37: the transformed frame
transformed(clean) ==
    [ i \in 1..Len(clean) |->
        [ idx |-> clean[i].idx,
          row |-> [ order_id   |-> clean[i].row.order_id,
                    order_date |-> Val(to_date(get(clean[i].row.order_date))),
                    region     |-> Val(title(get(clean[i].row.region))),
                    product    |-> clean[i].row.product,
                    quantity   |-> clean[i].row.quantity,
                    revenue    |-> clean[i].row.revenue,
                    revenue_per_unit |->
                        revenue_per_unit(clean[i].row.revenue, clean[i].row.quantity),
                    run_id     |-> run_id ] ] ]

\* the keys df.groupby sorts its groups by
sorted_regions == <<"Central", "East", "North", "South", "West">>

sorted_products ==
    <<"Mango Juice 1L", "Paneer 200g", "Paneer Curry Ready Meal", "Tomato Ketchup 500g">>

sorted_dates == << <<2024, 1, 15>>, <<2024, 1, 16>> >>

\* df.groupby(column).agg(sum of revenue, count of order_id): one [key, revenue,
\* orders] per key of keys that df holds, in the order of keys
RECURSIVE groupby(_, _, _)
groupby(df, column, keys) ==
    IF keys = <<>> THEN <<>>
    ELSE LET InGroup(row) == row[column] = Val(Head(keys))
             group == where(df, InGroup)
             HasId(row) == notna(row.order_id)
         IN  (IF group = <<>> THEN <<>>
              ELSE << [key |-> Head(keys), revenue |-> revenue_sum(group),
                       orders |-> Len(where(group, HasId))] >>)
             \o groupby(df, column, Tail(keys))

\* transformer.py:66-136: the summaries of _generate_analytics_summaries
analytics_summaries(df) ==
    LET regional == groupby(df, "region", sorted_regions)
        product  == groupby(df, "product", sorted_products)
        daily    == groupby(df, "order_date", sorted_dates)
    IN  << Summary(revenue_sum(df), Len(df), "ALL", "ALL", current_date) >>
        \o [ i \in 1..Len(regional) |->
               Summary(regional[i].revenue, regional[i].orders, regional[i].key, "ALL",
                       current_date) ]
        \o [ i \in 1..Len(product) |->
               Summary(product[i].revenue, product[i].orders, "ALL", product[i].key,
                       current_date) ]
        \o [ i \in 1..Len(daily) |->
               Summary(daily[i].revenue, daily[i].orders, "ALL", "ALL", daily[i].key) ]

\* transformer.py:138-149: delete the run's summaries, then insert the new ones
save_summaries(table, summaries) == delete_by_run(table, run_id) \o summaries

\* transformer.py:49-60 _save_clean_data: delete the run's rows, then insert
save_clean_data(table, df) ==
    delete_by_run(table, run_id) \o [ i \in 1..Len(df) |-> df[i].row ]

----------------------------------------------------------------------------
(* SalesDataPipeline._generate_basic_analytics (src/src/pipeline.py) *)

\* pipeline.py:186
regions == <<"North", "South", "East", "West", "Central">>

\* pipeline.py:209-210
products ==
    <<"Tomato Ketchup 500g", "Chicken Biryani Ready Meal", "Paneer 200g",
      "Potato Chips 50g", "Mango Juice 1L">>

\* product.split()[0] of the reference products
first_word(product) ==
    CASE product = "Tomato Ketchup 500g"        -> "Tomato"
      [] product = "Chicken Biryani Ready Meal" -> "Chicken"
      [] product = "Paneer 200g"                -> "Paneer"
      [] product = "Potato Chips 50g"           -> "Potato"
      [] product = "Mango Juice 1L"             -> "Mango"

\* str.contains(word, na=False) on a product cell: word occurs in the text
str_contains(cell, word) ==
    /\ notna(cell)
    /\ <<get(cell), word>> \in
          { <<"Tomato Ketchup 500g", "Tomato">>,
            <<"Paneer 200g", "Paneer">>,
            <<"Paneer Curry Ready Meal", "Paneer">>,
            <<"Mango Juice 1L", "Mango">> }

\* pipeline.py:172-183: the overall summary
total_summary(clean) ==
    Summary(IF clean # <<>> THEN revenue_sum(clean) ELSE 0,
            IF clean # <<>> THEN Len(clean) ELSE 0,
            "ALL", "ALL", current_date)

\* a region row computed without the region filter
region_summary_unfiltered(clean, region) ==
    Summary(revenue_sum(clean), Len(clean), region, "ALL", current_date)

\* pipeline.py:187-206: the summary of one region
region_summary(clean, region) ==
    LET InRegion(row) == row.region = Val(region)
        region_data == where(clean, InRegion)
    IN  Summary(revenue_sum(region_data), Len(region_data), region, "ALL", current_date)

\* pipeline.py:211-230: the summary of one reference product
product_summary(clean, product) ==
    LET HasWord(row) == str_contains(row.product, first_word(product))
        product_data == where(clean, HasWord)
    IN  Summary(revenue_sum(product_data), Len(product_data), "ALL", product, current_date)

\* region rows for the regions that have kept records only
basic_summaries_present_regions(clean) ==
    LET InSome(r) == \E k \in 1..Len(clean) : clean[k].row.region = Val(r)
        row_of(r) == IF InSome(r) THEN << region_summary(clean, r) >> ELSE << >>
    IN  << total_summary(clean) >>
        \o row_of(regions[1]) \o row_of(regions[2]) \o row_of(regions[3])
        \o row_of(regions[4]) \o row_of(regions[5])
        \o [ i \in 1..Len(products) |-> product_summary(clean, products[i]) ]

\* pipeline.py:169-230: the summaries list
basic_summaries(clean) ==
    << total_summary(clean) >>
    \o [ i \in 1..Len(regions) |-> region_summary(clean, regions[i]) ]
    \o [ i \in 1..Len(products) |-> product_summary(clean, products[i]) ]

\* _generate_basic_analytics without the DELETE
generate_basic_analytics_no_delete(table, clean) == table \o basic_summaries(clean)

\* pipeline.py:159-236 _generate_basic_analytics: the table it leaves
generate_basic_analytics(table, clean) ==
    delete_by_run(table, run_id) \o basic_summaries(clean)

----------------------------------------------------------------------------
(* SalesDataPipeline.run_pipeline (src/src/pipeline.py) *)

Init ==
    /\ csv_columns = original_columns
    /\ audit_db = "up"
    /\ source_file \in Batches
    /\ raw_df = <<>>
    /\ valid_df = <<>>
    /\ invalid_df = <<>>
    /\ clean_df = <<>>
    /\ validation_results = <<>>
    /\ exceptions = <<>>
    /\ clean_sales = <<>>
    /\ analytics_summary = <<>>
    /\ audit_log = <<>>
    /\ aggregated = <<>>
    /\ exc = ""
    /\ result = [status |-> "NONE"]
    /\ escaped = FALSE
    /\ pc = "start"

\* pipeline.py:25-28: log_pipeline_start, then _ingest_data (pipeline.py:75-98)
IngestData ==
    /\ pc = "start"
    /\ raw_df' = read_csv(source_file)
    /\ original_columns \subseteq csv_columns
    /\ \E oks \in [1..2 -> AuditWrites] :
          /\ audit_log' = log_to_db(audit_log,
                                    << AuditEvent("PIPELINE_START", 0),
                                       AuditEvent("DATA_INGESTION", Len(source_file)) >>,
                                    oks)
          /\ pc' = log_to_db_except(oks, "ingested")
    /\ UNCHANGED <<csv_columns, audit_db, source_file, valid_df, invalid_df, clean_df, validation_results,
                   exceptions, clean_sales, analytics_summary, aggregated, exc,
                   result, escaped>>

\* pipeline.py:104-108: the schema check passes (read_csv gives the six columns)
\* and validate_records splits the batch
ValidateRecords ==
    /\ pc = "ingested"
    /\ validate_schema(original_columns)
    /\ LET r == validate_records(raw_df, validation_results)
       IN  /\ valid_df' = r.valid
           /\ invalid_df' = r.invalid
           /\ validation_results' = r.log
    /\ pc' = "records_validated"
    /\ UNCHANGED <<csv_columns, audit_db, source_file, raw_df, clean_df, exceptions, clean_sales,
                   analytics_summary, audit_log, aggregated, exc, result, escaped>>

\* duplicates resolved against every row of the batch, the rejected included
CheckDuplicatesOverBatch ==
    /\ pc = "records_validated"
    /\ LET r == check_duplicates(valid_df, validation_results)
           first == { i \in 1..Len(valid_df) :
                        \A j \in 1..Len(raw_df) :
                            raw_df[j].idx < valid_df[i].idx
                                => raw_df[j].row.order_id # valid_df[i].row.order_id }
           kept == TakeRows(valid_df, first, 1)
       IN  /\ clean_df' = kept
           /\ validation_results' = r.log
           /\ \E oks \in [1..1 -> AuditWrites] :
                 /\ audit_log' = log_to_db(audit_log,
                                           << AuditEvent("VALIDATION_SUMMARY",
                                                         Len(kept) + Len(invalid_df)) >>,
                                           oks)
                 /\ pc' = log_to_db_except(oks, "validated")
    /\ UNCHANGED <<csv_columns, audit_db, source_file, raw_df, valid_df, invalid_df, exceptions, clean_sales,
                   analytics_summary, aggregated, exc, result, escaped>>

\* pipeline.py:111-118: check_duplicates on the accepted rows, then
\* save_validation_results and log_validation_summary
CheckDuplicates ==
    /\ pc = "records_validated"
    /\ LET r == check_duplicates(valid_df, validation_results)
       IN  /\ clean_df' = r.df
           /\ validation_results' = r.log
           /\ \E oks \in [1..1 -> AuditWrites] :
                 /\ audit_log' = log_to_db(audit_log,
                                           << AuditEvent("VALIDATION_SUMMARY",
                                                         Len(r.df) + Len(invalid_df)) >>,
                                           oks)
                 /\ pc' = log_to_db_except(oks, "validated")
    /\ UNCHANGED <<csv_columns, audit_db, source_file, raw_df, valid_df, invalid_df, exceptions, clean_sales,
                   analytics_summary, aggregated, exc, result, escaped>>

\* pipeline.py:35-36 and exception_handler.py:14-44 handle_exceptions(invalid_df)
HandleExceptions ==
    /\ pc = "validated"
    /\ exceptions' = IF invalid_df = <<>> THEN exceptions
                     ELSE exceptions \o exception_data(invalid_df, "VALIDATION")
    /\ pc' = "exceptions_handled"
    /\ UNCHANGED <<csv_columns, audit_db, source_file, raw_df, valid_df, invalid_df, clean_df,
                   validation_results, clean_sales, analytics_summary, audit_log,
                   aggregated, exc, result, escaped>>

\* a transformation that may start before the exceptions stage has run
TransformCleanDataEarly ==
    /\ pc \in {"validated", "exceptions_handled"}
    /\ IF clean_df = <<>>
       THEN /\ pc' = "transformed"
            /\ UNCHANGED <<clean_sales, analytics_summary, audit_log, aggregated>>
       ELSE LET transformed_df == transformed(clean_df)
            IN  /\ clean_sales' = save_clean_data(clean_sales, transformed_df)
                /\ analytics_summary' =
                      save_summaries(analytics_summary, analytics_summaries(transformed_df))
                /\ aggregated' = Append(aggregated, "transformer")
                /\ \E oks \in [1..1 -> AuditWrites] :
                      /\ audit_log' = log_to_db(audit_log,
                                                << AuditEvent("DATA_TRANSFORMATION",
                                                              Len(transformed_df)) >>,
                                                oks)
                      /\ pc' = log_to_db_except(oks, "transformed")
    /\ UNCHANGED <<csv_columns, audit_db, source_file, raw_df, valid_df, invalid_df, clean_df,
                   validation_results, exceptions, exc, result, escaped>>

\* pipeline.py:39-40 and transformer.py:12-47 transform_clean_data(clean_df)
TransformCleanData ==
    /\ pc = "exceptions_handled"
    /\ IF clean_df = <<>>
       THEN /\ pc' = "transformed"
            /\ UNCHANGED <<clean_sales, analytics_summary, audit_log, aggregated>>
       ELSE LET transformed_df == transformed(clean_df)
            IN  /\ clean_sales' = save_clean_data(clean_sales, transformed_df)
                /\ analytics_summary' =
                      save_summaries(analytics_summary, analytics_summaries(transformed_df))
                /\ aggregated' = Append(aggregated, "transformer")
                /\ \E oks \in [1..1 -> AuditWrites] :
                      /\ audit_log' = log_to_db(audit_log,
                                                << AuditEvent("DATA_TRANSFORMATION",
                                                              Len(transformed_df)) >>,
                                                oks)
                      /\ pc' = log_to_db_except(oks, "transformed")
    /\ UNCHANGED <<csv_columns, audit_db, source_file, raw_df, valid_df, invalid_df, clean_df,
                   validation_results, exceptions, exc, result, escaped>>

\* the aggregation of the accepted rows, the dropped duplicates included
GenerateBasicAnalyticsBeforeDedup ==
    /\ pc = "transformed"
    /\ analytics_summary' = generate_basic_analytics(analytics_summary, valid_df)
    /\ aggregated' = Append(aggregated, "basic")
    /\ pc' = "aggregated"
    /\ UNCHANGED <<csv_columns, audit_db, source_file, raw_df, valid_df, invalid_df, clean_df,
                   validation_results, exceptions, clean_sales, audit_log, exc,
                   result, escaped>>

\* pipeline.py:43 _generate_basic_analytics(raw_df, clean_df, invalid_df)
GenerateBasicAnalytics ==
    /\ pc = "transformed"
    /\ analytics_summary' = generate_basic_analytics(analytics_summary, clean_df)
    /\ aggregated' = Append(aggregated, "basic")
    /\ pc' = "aggregated"
    /\ UNCHANGED <<csv_columns, audit_db, source_file, raw_df, valid_df, invalid_df, clean_df,
                   validation_results, exceptions, clean_sales, audit_log, exc,
                   result, escaped>>

\* a summary whose total is the kept plus the rejected records
ReturnSuccessCountsKept ==
    /\ pc = "aggregated"
    /\ \E oks \in [1..1 -> AuditWrites] :
          audit_log' = log_to_db(audit_log, << AuditEvent("PIPELINE_END", Len(raw_df)) >>, oks)
    /\ result' = [status |-> "SUCCESS", total_records |-> Len(clean_df) + Len(invalid_df),
                  clean_records |-> Len(clean_df), invalid_records |-> Len(invalid_df)]
    /\ pc' = "returned"
    /\ UNCHANGED <<csv_columns, audit_db, source_file, raw_df, valid_df, invalid_df, clean_df,
                   validation_results, exceptions, clean_sales, analytics_summary,
                   aggregated, exc, escaped>>

\* pipeline.py:46-57: generate_validation_summary, log_pipeline_end, return
ReturnSuccess ==
    /\ pc = "aggregated"
    /\ \E oks \in [1..1 -> AuditWrites] :
          audit_log' = log_to_db(audit_log, << AuditEvent("PIPELINE_END", Len(raw_df)) >>, oks)
    /\ result' = [status |-> "SUCCESS", total_records |-> Len(raw_df),
                  clean_records |-> Len(clean_df), invalid_records |-> Len(invalid_df)]
    /\ pc' = "returned"
    /\ UNCHANGED <<csv_columns, audit_db, source_file, raw_df, valid_df, invalid_df, clean_df,
                   validation_results, exceptions, clean_sales, analytics_summary,
                   aggregated, exc, escaped>>

Next ==
    \/ IngestData
    \/ ValidateRecords
    \/ CheckDuplicates
    \/ HandleExceptions
    \/ TransformCleanData
    \/ GenerateBasicAnalytics
    \/ ReturnSuccess

Spec == Init /\ [][Next]_vars

----------------------------------------------------------------------------
(* run_pipeline when a stage raises (src/src/pipeline.py:59-73) *)

\* the batches of the runs in which stages may fail
MaxFailLen == 2

InitFail ==
    /\ csv_columns = original_columns
    /\ audit_db = "up"
    /\ source_file \in SeqsUpTo(SampleRecords, MaxFailLen)
    /\ raw_df = <<>>
    /\ valid_df = <<>>
    /\ invalid_df = <<>>
    /\ clean_df = <<>>
    /\ validation_results = <<>>
    /\ exceptions = <<>>
    /\ clean_sales = <<>>
    /\ analytics_summary = <<>>
    /\ audit_log = <<>>
    /\ aggregated = <<>>
    /\ exc = ""
    /\ result = [status |-> "NONE"]
    /\ escaped = FALSE
    /\ pc = "start"

\* audit_logger.py:55-58 log_exception
SystemError == AuditEvent("SYSTEM_ERROR", 0)

\* pipeline.py:75-98 _ingest_data raises: read_csv or the raw_sales write fails;
\* the inner handler logs the exception and re-raises
IngestDataFails ==
    /\ pc = "start"
    /\ \E e \in {"read_csv failed", "raw_sales write failed"} : exc' = e
    /\ \E oks \in [1..2 -> AuditWrites] :
          audit_log' = log_to_db(audit_log,
                                 << AuditEvent("PIPELINE_START", 0), SystemError >>, oks)
    /\ pc' = "failed"
    /\ UNCHANGED <<csv_columns, audit_db, source_file, raw_df, valid_df, invalid_df, clean_df,
                   validation_results, exceptions, clean_sales, analytics_summary,
                   aggregated, result, escaped>>

\* pipeline.py:100-122 _validate_data raises: save_validation_results fails
\* (validator.py:127-148, it writes only when there are results); the split
\* frames are never returned, the inner handler logs and re-raises
ValidateDataFails ==
    /\ pc = "records_validated"
    /\ LET r == check_duplicates(valid_df, validation_results)
       IN  /\ r.log # <<>>
           /\ validation_results' = r.log
    /\ exc' = "validation_results write failed"
    /\ \E oks \in [1..1 -> AuditWrites] :
          audit_log' = log_to_db(audit_log, << SystemError >>, oks)
    /\ pc' = "failed"
    /\ UNCHANGED <<csv_columns, audit_db, source_file, raw_df, valid_df, invalid_df, clean_df, exceptions,
                   clean_sales, analytics_summary, aggregated, result, escaped>>

\* exception_handler.py:14-44 handle_exceptions raises: the exceptions table
\* write fails before its commit, or the CSV write fails after it
HandleExceptionsFails ==
    /\ pc = "validated"
    /\ invalid_df # <<>>
    /\ \/ /\ exc' = "exceptions write failed"
          /\ UNCHANGED exceptions
       \/ /\ exc' = "exceptions csv failed"
          /\ exceptions' = exceptions \o exception_data(invalid_df, "VALIDATION")
    /\ pc' = "failed"
    /\ UNCHANGED <<csv_columns, audit_db, source_file, raw_df, valid_df, invalid_df, clean_df,
                   validation_results, clean_sales, analytics_summary, audit_log,
                   aggregated, result, escaped>>

\* transformer.py:12-47 transform_clean_data raises: in _save_clean_data
\* (DELETE committed, to_sql fails) or in _generate_analytics_summaries
\* (DELETE committed, to_sql fails)
TransformCleanDataFails ==
    /\ pc = "exceptions_handled"
    /\ clean_df # <<>>
    /\ \/ /\ exc' = "clean_sales write failed"
          /\ clean_sales' = delete_by_run(clean_sales, run_id)
          /\ UNCHANGED <<analytics_summary, aggregated>>
       \/ /\ exc' = "analytics_summary write failed"
          /\ clean_sales' = save_clean_data(clean_sales, transformed(clean_df))
          /\ analytics_summary' = delete_by_run(analytics_summary, run_id)
          /\ aggregated' = Append(aggregated, "deleted")
    /\ pc' = "failed"
    /\ UNCHANGED <<csv_columns, audit_db, source_file, raw_df, valid_df, invalid_df, clean_df,
                   validation_results, exceptions, audit_log, result, escaped>>

\* pipeline.py:159-236 _generate_basic_analytics raises: the DELETE fails, or
\* it is committed and the insert fails
GenerateBasicAnalyticsFails ==
    /\ pc = "transformed"
    /\ \/ /\ exc' = "analytics_summary delete failed"
          /\ UNCHANGED <<analytics_summary, aggregated>>
       \/ /\ exc' = "analytics_summary insert failed"
          /\ analytics_summary' = delete_by_run(analytics_summary, run_id)
          /\ aggregated' = Append(aggregated, "deleted")
    /\ pc' = "failed"
    /\ UNCHANGED <<csv_columns, audit_db, source_file, raw_df, valid_df, invalid_df, clean_df,
                   validation_results, exceptions, clean_sales, audit_log, result,
                   escaped>>

\* pipeline.py:46 and validator.py:150-184 generate_validation_summary raises:
\* the summary CSV cannot be written
ValidationSummaryFails ==
    /\ pc = "aggregated"
    /\ exc' = "validation_summary csv failed"
    /\ pc' = "failed"
    /\ UNCHANGED <<csv_columns, audit_db, source_file, raw_df, valid_df, invalid_df, clean_df,
                   validation_results, exceptions, clean_sales, analytics_summary,
                   audit_log, aggregated, result, escaped>>

\* what the fallback aggregation of the handler can do
FallbackOutcomes == {"ok", "read_csv failed", "delete failed", "insert failed"}

\* a handler whose fallback is not guarded
fallback_propagates_unguarded(outcome) == outcome # "ok"

\* pipeline.py:63-67: try ... except: pass -- no exception of the fallback
\* leaves the handler
fallback_propagates(outcome) == FALSE

\* a handler whose fallback aggregation inserts without deleting
ReturnFailedKeepsRows ==
    /\ pc = "failed"
    /\ \E oks \in [1..1 -> AuditWrites] :
          audit_log' = log_to_db(audit_log, << SystemError >>, oks)
    /\ \E outcome \in FallbackOutcomes :
          /\ CASE outcome = "ok" ->
                    /\ analytics_summary' =
                          generate_basic_analytics_no_delete(analytics_summary, <<>>)
                    /\ aggregated' = Append(aggregated, "fallback")
               [] outcome = "insert failed" ->
                    /\ analytics_summary' = delete_by_run(analytics_summary, run_id)
                    /\ aggregated' = Append(aggregated, "deleted")
               [] OTHER -> UNCHANGED <<analytics_summary, aggregated>>
          /\ result' = [status |-> "FAILED", error |-> exc]
          /\ pc' = "returned"
          /\ UNCHANGED escaped
    /\ UNCHANGED <<csv_columns, audit_db, source_file, raw_df, valid_df, invalid_df, clean_df,
                   validation_results, exceptions, clean_sales, exc>>

\* pipeline.py:59-73: the handler of run_pipeline logs the exception, runs the
\* fallback aggregation over empty frames and returns the FAILED summary
ReturnFailed ==
    /\ pc = "failed"
    /\ \E oks \in [1..1 -> AuditWrites] :
          audit_log' = log_to_db(audit_log, << SystemError >>, oks)
    /\ \E outcome \in FallbackOutcomes :
          /\ CASE outcome = "ok" ->
                    /\ analytics_summary' = generate_basic_analytics(analytics_summary, <<>>)
                    /\ aggregated' = Append(aggregated, "fallback")
               [] outcome = "insert failed" ->
                    /\ analytics_summary' = delete_by_run(analytics_summary, run_id)
                    /\ aggregated' = Append(aggregated, "deleted")
               [] OTHER -> UNCHANGED <<analytics_summary, aggregated>>
          /\ IF fallback_propagates(outcome)
             THEN /\ escaped' = TRUE
                  /\ pc' = "raised"
                  /\ UNCHANGED result
             ELSE /\ result' = [status |-> "FAILED", error |-> exc]
                  /\ pc' = "returned"
                  /\ UNCHANGED escaped
    /\ UNCHANGED <<csv_columns, audit_db, source_file, raw_df, valid_df, invalid_df, clean_df,
                   validation_results, exceptions, clean_sales, exc>>

NextFail ==
    \/ IngestData
    \/ ValidateRecords
    \/ CheckDuplicates
    \/ HandleExceptions
    \/ TransformCleanData
    \/ GenerateBasicAnalytics
    \/ ReturnSuccess
    \/ IngestDataFails
    \/ ValidateDataFails
    \/ HandleExceptionsFails
    \/ TransformCleanDataFails
    \/ GenerateBasicAnalyticsFails
    \/ ValidationSummaryFails
    \/ ReturnFailed

SpecFail == InitFail /\ [][NextFail]_vars

----------------------------------------------------------------------------
(* run_pipeline on a file whose header lacks a column *)

\* the full header and the headers that lack one of the six columns
Headers == { original_columns \ S : S \in { T \in SUBSET original_columns : Cardinality(T) <= 1 } }

InitSchema ==
    /\ csv_columns \in Headers
    /\ audit_db = "up"
    /\ source_file \in SeqsUpTo(SampleRecords, MaxFailLen)
    /\ raw_df = <<>>
    /\ valid_df = <<>>
    /\ invalid_df = <<>>
    /\ clean_df = <<>>
    /\ validation_results = <<>>
    /\ exceptions = <<>>
    /\ clean_sales = <<>>
    /\ analytics_summary = <<>>
    /\ audit_log = <<>>
    /\ aggregated = <<>>
    /\ exc = ""
    /\ result = [status |-> "NONE"]
    /\ escaped = FALSE
    /\ pc = "start"

\* pipeline.py:75-98 _ingest_data on such a file: the rows are read, written to
\* raw_sales and logged, then df[original_columns] (line 94) raises KeyError;
\* the inner handler logs the exception and re-raises
IngestDataKeyError ==
    /\ pc = "start"
    /\ ~ (original_columns \subseteq csv_columns)
    /\ exc' = "KeyError: not in index"
    /\ \E oks \in [1..3 -> AuditWrites] :
          audit_log' = log_to_db(audit_log,
                                 << AuditEvent("PIPELINE_START", 0),
                                    AuditEvent("DATA_INGESTION", Len(source_file)),
                                    SystemError >>, oks)
    /\ pc' = "failed"
    /\ UNCHANGED <<csv_columns, audit_db, source_file, raw_df, valid_df, invalid_df,
                   clean_df, validation_results, exceptions, clean_sales,
                   analytics_summary, aggregated, result, escaped>>

NextSchema ==
    \/ IngestData
    \/ ValidateRecords
    \/ CheckDuplicates
    \/ HandleExceptions
    \/ TransformCleanData
    \/ GenerateBasicAnalytics
    \/ ReturnSuccess
    \/ IngestDataKeyError
    \/ ReturnFailed

SpecSchema == InitSchema /\ [][NextSchema]_vars

----------------------------------------------------------------------------
(* run_pipeline while another SalesDataPipeline object, with its own run_id
   (src/src/pipeline.py:14), writes the same tables statement by statement *)

other_run_id == "run-2"

\* the rows another run makes of rows: its own run_id is in every row
tagged(rows, rid) == [ k \in 1..Len(rows) |-> [ rows[k] EXCEPT !.run_id = rid ] ]

\* the rows of table that carry rid
rows_of(table, rid) == SelectSeq(table, LAMBDA x : x.run_id = rid)

\* the frames of kept records the other run may hold
OtherFrames ==
    { check_duplicates(validate_records(read_csv(b), <<>>).valid, <<>>).df :
        b \in SeqsUpTo(SampleRecords, 1) }

InitRuns ==
    /\ csv_columns = original_columns
    /\ audit_db = "up"
    /\ source_file \in SeqsUpTo(SampleRecords, MaxFailLen)
    /\ raw_df = <<>>
    /\ valid_df = <<>>
    /\ invalid_df = <<>>
    /\ clean_df = <<>>
    /\ validation_results = <<>>
    /\ exceptions = <<>>
    /\ clean_sales = <<>>
    /\ analytics_summary = <<>>
    /\ audit_log = <<>>
    /\ aggregated = <<>>
    /\ exc = ""
    /\ result = [status |-> "NONE"]
    /\ escaped = FALSE
    /\ pc = "start"

\* transformer.py:54-57: the other run's DELETE FROM clean_sales
OtherRunDeletesCleanSales ==
    /\ clean_sales' = delete_by_run(clean_sales, other_run_id)
    /\ UNCHANGED <<csv_columns, audit_db, source_file, raw_df, valid_df, invalid_df,
                   clean_df, validation_results, exceptions, analytics_summary,
                   audit_log, aggregated, exc, result, escaped, pc>>

\* transformer.py:60: the other run's df.to_sql('clean_sales'), after its DELETE
OtherRunInsertsCleanSales ==
    /\ rows_of(clean_sales, other_run_id) = <<>>
    /\ \E f \in OtherFrames \ {<<>>} :
          clean_sales' =
              clean_sales \o tagged([ i \in 1..Len(f) |-> transformed(f)[i].row ],
                                    other_run_id)
    /\ UNCHANGED <<csv_columns, audit_db, source_file, raw_df, valid_df, invalid_df,
                   clean_df, validation_results, exceptions, analytics_summary,
                   audit_log, aggregated, exc, result, escaped, pc>>

\* transformer.py:142-145 and pipeline.py:164-167: the other run's
\* DELETE FROM analytics_summary
OtherRunDeletesSummaries ==
    /\ analytics_summary' = delete_by_run(analytics_summary, other_run_id)
    /\ UNCHANGED <<csv_columns, audit_db, source_file, raw_df, valid_df, invalid_df,
                   clean_df, validation_results, exceptions, clean_sales, audit_log,
                   aggregated, exc, result, escaped, pc>>

\* transformer.py:148-149 and pipeline.py:233-235: the other run's
\* summary_df.to_sql('analytics_summary'), after its DELETE
OtherRunInsertsSummaries ==
    /\ rows_of(analytics_summary, other_run_id) = <<>>
    /\ \E f \in OtherFrames :
          \/ /\ f # <<>>
             /\ analytics_summary' =
                   analytics_summary
                       \o tagged(analytics_summaries(transformed(f)), other_run_id)
          \/ analytics_summary' =
                 analytics_summary \o tagged(basic_summaries(f), other_run_id)
    /\ UNCHANGED <<csv_columns, audit_db, source_file, raw_df, valid_df, invalid_df,
                   clean_df, validation_results, exceptions, clean_sales, audit_log,
                   aggregated, exc, result, escaped, pc>>

NextRuns ==
    \/ IngestData
    \/ ValidateRecords
    \/ CheckDuplicates
    \/ HandleExceptions
    \/ TransformCleanData
    \/ GenerateBasicAnalytics
    \/ ReturnSuccess
    \/ OtherRunDeletesCleanSales
    \/ OtherRunInsertsCleanSales
    \/ OtherRunDeletesSummaries
    \/ OtherRunInsertsSummaries

SpecRuns == InitRuns /\ [][NextRuns]_vars

----------------------------------------------------------------------------
(* run_pipeline while the audit_log table may reject writes *)

InitAudit ==
    /\ csv_columns = original_columns
    /\ audit_db \in {"up", "failing"}
    /\ source_file \in SeqsUpTo(SampleRecords, MaxFailLen)
    /\ raw_df = <<>>
    /\ valid_df = <<>>
    /\ invalid_df = <<>>
    /\ clean_df = <<>>
    /\ validation_results = <<>>
    /\ exceptions = <<>>
    /\ clean_sales = <<>>
    /\ analytics_summary = <<>>
    /\ audit_log = <<>>
    /\ aggregated = <<>>
    /\ exc = ""
    /\ result = [status |-> "NONE"]
    /\ escaped = FALSE
    /\ pc = "start"

SpecAudit == InitAudit /\ [][NextFail]_vars

----------------------------------------------------------------------------
(* Aggregation run again for the same run identifier: run_pipeline called
   again on the same SalesDataPipeline object, whose run_id is fixed in
   __init__ (src/src/pipeline.py:13-16) *)

MaxAggregations == 3

\* a summary row that an earlier run left in the table
other_run_row == [ Summary(70, 2, "ALL", "ALL", current_date) EXCEPT !.run_id = "run-0" ]

InitAggregate ==
    /\ csv_columns = original_columns
    /\ audit_db = "up"
    /\ source_file \in SeqsUpTo(SampleRecords, MaxFailLen)
    /\ raw_df = read_csv(source_file)
    /\ LET v == validate_records(raw_df, <<>>)
           d == check_duplicates(v.valid, v.log)
       IN  /\ valid_df = v.valid
           /\ invalid_df = v.invalid
           /\ clean_df = d.df
           /\ validation_results = d.log
    /\ exceptions = IF invalid_df = <<>> THEN <<>>
                    ELSE exception_data(invalid_df, "VALIDATION")
    /\ clean_sales = <<>>
    /\ analytics_summary \in { <<>>, << other_run_row >> }
    /\ audit_log = <<>>
    /\ aggregated = <<>>
    /\ exc = ""
    /\ result = [status |-> "NONE"]
    /\ escaped = FALSE
    /\ pc = "aggregate"

\* transformer.py:64-151 _generate_analytics_summaries(transformed_df)
GenerateAnalyticsSummaries ==
    /\ pc = "aggregate"
    /\ Len(aggregated) < MaxAggregations
    /\ clean_df # <<>>
    /\ analytics_summary' =
          save_summaries(analytics_summary, analytics_summaries(transformed(clean_df)))
    /\ aggregated' = Append(aggregated, "transformer")
    /\ UNCHANGED <<csv_columns, audit_db, source_file, raw_df, valid_df, invalid_df, clean_df,
                   validation_results, exceptions, clean_sales, audit_log, exc,
                   result, escaped, pc>>

\* pipeline.py:159-236 _generate_basic_analytics(raw_df, clean_df, invalid_df)
GenerateBasicAnalyticsAgain ==
    /\ pc = "aggregate"
    /\ Len(aggregated) < MaxAggregations
    /\ analytics_summary' = generate_basic_analytics(analytics_summary, clean_df)
    /\ aggregated' = Append(aggregated, "basic")
    /\ UNCHANGED <<csv_columns, audit_db, source_file, raw_df, valid_df, invalid_df, clean_df,
                   validation_results, exceptions, clean_sales, audit_log, exc,
                   result, escaped, pc>>

NextAggregate ==
    \/ GenerateAnalyticsSummaries
    \/ GenerateBasicAnalyticsAgain

SpecAggregate == InitAggregate /\ [][NextAggregate]_vars

----------------------------------------------------------------------------
(* Properties *)

AfterDedup == pc \in {"validated", "exceptions_handled"}

AfterValidateRecords == pc \in {"records_validated", "validated", "exceptions_handled"}

\* the index labels of df
Indices(df) == { df[i].idx : i \in 1..Len(df) }

\* the rows of df, as a set
Rows(df) == { df[i] : i \in 1..Len(df) }

\* the order_id values of df, in row order
Ids(df) == [ i \in 1..Len(df) |-> df[i].row.order_id ]

\* the number of entries of the validation log for record id that satisfy P
Count(id, P(_)) ==
    Cardinality({ k \in 1..Len(validation_results) :
                    validation_results[k].record_id = id /\ P(validation_results[k]) })

\* the rules of the record evaluator, stated on the fields of a row
IdMissing(row) == row.order_id = NaN \/ row.order_id = <<"">>

RegionMissing(row) == row.region = NaN \/ row.region = <<"">>

DateMissing(row) == row.order_date = NaN

DateSentinel(row) == row.order_date = <<"invalid_date">>

DateUnparseable(row) ==
    /\ row.order_date # NaN
    /\ row.order_date # <<"invalid_date">>
    /\ row.order_date[1] \notin ParseableDates

RevenueNegative(row) == row.revenue # NaN /\ row.revenue[1] < 0

QuantityNonPositive(row) == row.quantity # NaN /\ row.quantity[1] <= 0

RegionUnknown(row) ==
    row.region # NaN /\ row.region[1] \notin {"North", "South", "East", "West", "Central"}

\* the rule that each control type of validate_records reports
Violates(row, control_type) ==
    CASE control_type = "MISSING_ORDER_ID" -> IdMissing(row)
      [] control_type = "MISSING_REGION"   -> RegionMissing(row)
      [] control_type = "MISSING_DATE"     -> DateMissing(row)
      [] control_type = "INVALID_FORMAT"   -> DateSentinel(row)
      [] control_type = "PARSE_ERROR"      -> DateUnparseable(row)
      [] control_type = "NEGATIVE_REVENUE" -> RevenueNegative(row)
      [] control_type = "INVALID_QUANTITY" -> QuantityNonPositive(row)
      [] control_type = "INVALID_REGION"   -> RegionUnknown(row)

RuleControlTypes ==
    {"MISSING_ORDER_ID", "MISSING_REGION", "MISSING_DATE", "INVALID_FORMAT",
     "PARSE_ERROR", "NEGATIVE_REVENUE", "INVALID_QUANTITY", "INVALID_REGION"}

ViolatedRules(row) == { c \in RuleControlTypes : Violates(row, c) }

\* C1: after validate_records and check_duplicates every input record is in
\* exactly one of accepted-kept (clean_df), duplicate-dropped (accepted, not in
\* clean_df) and rule-rejected (invalid_df), and the three sizes sum to the
\* size of the batch.
C1_Partition ==
    AfterDedup =>
        LET kept     == Indices(clean_df)
            dropped  == Indices(valid_df) \ Indices(clean_df)
            rejected == Indices(invalid_df)
        IN  /\ kept \cup dropped \cup rejected = Indices(raw_df)
            /\ kept \cap rejected = {}
            /\ dropped \cap rejected = {}
            /\ Rows(clean_df) \cup Rows(valid_df) \cup Rows(invalid_df) = Rows(raw_df)
            /\ Len(clean_df) = Cardinality(kept)
            /\ Len(invalid_df) = Cardinality(rejected)
            /\ Cardinality(kept) + Cardinality(dropped) + Cardinality(rejected)
                 = Len(raw_df)

C1_Witness ==
    /\ pc = "validated"
    /\ clean_df # <<>>
    /\ Indices(valid_df) \ Indices(clean_df) # {}
    /\ invalid_df # <<>>

\* C2: check_duplicates keeps, for each identifier, exactly the first
\* occurrence in batch order, in the original relative order, and drops every
\* later occurrence; identifiers [A, B, A, A] keep the first A and B and drop
\* the second and third A.
C2_FirstWins ==
    AfterDedup =>
        /\ \A i, j \in 1..Len(clean_df) :
              i < j => /\ clean_df[i].idx < clean_df[j].idx
                       /\ clean_df[i].row.order_id # clean_df[j].row.order_id
        /\ \A k \in 1..Len(valid_df) :
              (valid_df[k] \in Rows(clean_df))
                <=> (\A j \in 1..(k - 1) : valid_df[j].row.order_id # valid_df[k].row.order_id)
        /\ Ids(valid_df) = << <<"A">>, <<"B">>, <<"A">>, <<"A">> >>
              => /\ clean_df = <<valid_df[1], valid_df[2]>>
                 /\ Rows(valid_df) \ Rows(clean_df) = {valid_df[3], valid_df[4]}

C2_Witness ==
    /\ pc = "validated"
    /\ Ids(valid_df) = << <<"A">>, <<"B">>, <<"A">>, <<"A">> >>
    /\ Len(clean_df) = 2

\* C3: after the exception-handling stage an ExceptionRecord exists for every
\* duplicate-dropped record, as for every rule-rejected record.
C3_DuplicatesRouted ==
    pc = "exceptions_handled" =>
        \A id \in (Indices(valid_df) \ Indices(clean_df)) \cup Indices(invalid_df) :
            \E k \in 1..Len(exceptions) : exceptions[k].original_record_id = id

\* C4: a rejected record with a present identifier and negative revenue or
\* non-positive quantity is BUSINESS_RULE_VIOLATION, also when its date is
\* missing or malformed.
C4_BusinessRuleBeforeDate ==
    \A k \in 1..Len(exceptions) :
        LET r == exceptions[k].raw_data
        IN  (~IdMissing(r) /\ (RevenueNegative(r) \/ QuantityNonPositive(r)))
              => exceptions[k].error_category = "BUSINESS_RULE_VIOLATION"

\* C5: a rejected record whose identifier is null or empty is
\* MISSING_REQUIRED_FIELD whatever else it violates.
C5_MissingIdFirst ==
    \A k \in 1..Len(exceptions) :
        IdMissing(exceptions[k].raw_data)
          => exceptions[k].error_category = "MISSING_REQUIRED_FIELD"

C5_Witness ==
    \E k \in 1..Len(exceptions) :
        /\ IdMissing(exceptions[k].raw_data)
        /\ RevenueNegative(exceptions[k].raw_data)
        /\ exceptions[k].error_category = "MISSING_REQUIRED_FIELD"

\* C6: a record rejected with a date-validation violation (missing, sentinel or
\* unparseable date) that has a present identifier and no revenue or quantity
\* violation is DATA_FORMAT_ERROR.
C6_DateViolationIsFormatError ==
    \A k \in 1..Len(exceptions) :
        LET r  == exceptions[k].raw_data
            IsDateFailure(e) == e.stage = "DATE_VALIDATION" /\ e.status = "FAILED"
        IN  (/\ Count(exceptions[k].original_record_id, IsDateFailure) > 0
             /\ ~IdMissing(r)
             /\ ~RevenueNegative(r)
             /\ ~QuantityNonPositive(r))
              => exceptions[k].error_category = "DATA_FORMAT_ERROR"

\* C7: validate_records accepts a record iff it violates none of the rules,
\* and iff it logged no FAILED outcome for the record.
C7_AcceptedIffNoViolation ==
    AfterValidateRecords =>
        \A i \in 1..Len(raw_df) :
            LET e == raw_df[i]
                IsRuleFailure(x) == x.status = "FAILED" /\ x.stage # "DUPLICATE_CHECK"
                noViolation ==
                    /\ ~IdMissing(e.row)
                    /\ ~RegionMissing(e.row)
                    /\ ~DateMissing(e.row) /\ ~DateSentinel(e.row) /\ ~DateUnparseable(e.row)
                    /\ (e.row.revenue = NaN \/ e.row.revenue[1] >= 0)
                    /\ (e.row.quantity = NaN \/ e.row.quantity[1] > 0)
                    /\ (e.row.region = NaN
                          \/ e.row.region[1] \in {"North", "South", "East", "West", "Central"})
            IN  /\ (e \in Rows(valid_df)) <=> noViolation
                /\ (e \in Rows(valid_df)) <=> (Count(e.idx, IsRuleFailure) = 0)

C7_Witness ==
    /\ pc = "records_validated"
    /\ \E e \in Rows(valid_df) : e.row.quantity = NaN /\ e.row.revenue = <<0>>
    /\ invalid_df = <<>>

\* C8: validate_records logs one violation for each rule a record violates and
\* none for a rule it does not violate; a record with negative revenue and an
\* invalid region gets both NEGATIVE_REVENUE and INVALID_REGION.
C8_Exhaustive ==
    AfterValidateRecords =>
        \A i \in 1..Len(raw_df) : \A c \in RuleControlTypes :
            LET IsC(x) == x.status = "FAILED" /\ x.control_type = c
            IN  Count(raw_df[i].idx, IsC) = IF Violates(raw_df[i].row, c) THEN 1 ELSE 0

C8_Witness ==
    /\ pc = "records_validated"
    /\ \E i \in 1..Len(raw_df) :
          LET IsRev(x) == x.control_type = "NEGATIVE_REVENUE"
              IsReg(x) == x.control_type = "INVALID_REGION"
          IN  /\ RevenueNegative(raw_df[i].row)
              /\ RegionUnknown(raw_df[i].row)
              /\ Count(raw_df[i].idx, IsRev) = 1
              /\ Count(raw_df[i].idx, IsReg) = 1

C10_DuplicateOutcomes ==
    AfterDedup =>
        LET IsDup(x) == /\ x.control_type = "DUPLICATE_ORDER_ID"
                        /\ x.stage = "DUPLICATE_CHECK"
                        /\ x.status = "FAILED"
            Occurrences(k) ==
                { j \in 1..Len(valid_df) : valid_df[j].row.order_id = valid_df[k].row.order_id }
        IN  /\ \A k \in 1..Len(valid_df) :
                  /\ Count(valid_df[k].idx, IsDup)
                       = IF Cardinality(Occurrences(k)) > 1 THEN 1 ELSE 0
                  /\ (valid_df[k] \notin Rows(clean_df))
                       <=> (\E j \in Occurrences(k) : j < k)
            /\ \A e \in Rows(invalid_df) : Count(e.idx, IsDup) = 0

C10_Witness ==
    /\ pc = "validated"
    /\ \E e \in Rows(clean_df) :
          LET IsDup(x) == x.control_type = "DUPLICATE_ORDER_ID" /\ x.status = "FAILED"
          IN  Count(e.idx, IsDup) = 1
    /\ \E e \in Rows(clean_df) :
          LET IsDup(x) == x.control_type = "DUPLICATE_ORDER_ID"
          IN  Count(e.idx, IsDup) = 0
    /\ Len(valid_df) > Len(clean_df)

\* the reasons an error detail can hold for a row, in the order they are joined
ReasonTexts(row) ==
       <<"Missing order ID", "Missing region", "Missing order date",
         "Invalid date format", "Cannot parse date">>
    \o (IF row.revenue # NaN THEN <<"Negative revenue: " \o ToString(row.revenue[1])>> ELSE <<>>)
    \o (IF row.quantity # NaN THEN <<"Invalid quantity: " \o ToString(row.quantity[1])>> ELSE <<>>)
    \o (IF row.region # NaN THEN <<"Invalid region: " \o row.region[1]>> ELSE <<>>)

\* the texts at the positions S of texts, in order
RECURSIVE Pick(_, _, _)
Pick(texts, S, i) ==
    IF i > Len(texts) THEN <<>>
    ELSE (IF i \in S THEN <<texts[i]>> ELSE <<>>) \o Pick(texts, S, i + 1)

\* C11: the error detail of an ExceptionRecord holds one reason for every
\* violation validate_records logged for the record, joined by "; ": it is the
\* join of as many distinct reasons as the record has logged violations.
C11_DetailPerViolation ==
    \A k \in 1..Len(exceptions) :
        LET r == exceptions[k].raw_data
            IsRuleFailure(x) == x.status = "FAILED" /\ x.stage # "DUPLICATE_CHECK"
            n == Count(exceptions[k].original_record_id, IsRuleFailure)
        IN  \E S \in SUBSET (1..Len(ReasonTexts(r))) :
                /\ Cardinality(S) = n
                /\ exceptions[k].error_details = join("; ", Pick(ReasonTexts(r), S, 1))

\* C12: every rejected record gets exactly one of the four categories, and
\* DATA_QUALITY_ISSUE exactly when the identifier is present, revenue is not
\* negative, quantity is not non-positive and the date is neither missing nor
\* malformed.
C12_CategoryTotal ==
    \A k \in 1..Len(exceptions) :
        LET r == exceptions[k].raw_data
        IN  /\ exceptions[k].error_category \in
                  {"MISSING_REQUIRED_FIELD", "BUSINESS_RULE_VIOLATION",
                   "DATA_FORMAT_ERROR", "DATA_QUALITY_ISSUE"}
            /\ (exceptions[k].error_category = "DATA_QUALITY_ISSUE")
                  <=> /\ ~IdMissing(r)
                      /\ ~RevenueNegative(r) /\ ~QuantityNonPositive(r)
                      /\ ~DateMissing(r) /\ ~DateSentinel(r) /\ ~DateUnparseable(r)

\* the rows of the analytics_summary table, as positions
SummaryRows(P(_)) == { k \in 1..Len(analytics_summary) : P(analytics_summary[k]) }

\* the sum of the revenue of the rows of df that satisfy P, NaN counting 0
RECURSIVE SumSeq(_)
SumSeq(numbers) ==
    IF numbers = <<>> THEN 0 ELSE Head(numbers) + SumSeq(Tail(numbers))

SumIf(df, P(_), i) ==
    SumSeq([ k \in 1..Len(df) |->
               IF k >= i /\ P(df[k].row) /\ df[k].row.revenue # NaN
               THEN df[k].row.revenue[1] ELSE 0 ])

CountIf(df, P(_)) == Cardinality({ i \in 1..Len(df) : P(df[i].row) })

\* the calendar date of a kept row
DateOf(row) ==
    CASE row.order_date = <<"2024-01-15">> -> <<2024, 1, 15>>
      [] row.order_date = <<"2024-01-16">> -> <<2024, 1, 16>>

\* C13: after a run that ends SUCCESS the stored summaries hold, for every
\* calendar date of a kept record, one row (region ALL, product ALL,
\* calculation date that date) with the revenue and count of the kept records
\* of that date.
C13_DailyRows ==
    result.status = "SUCCESS" =>
        \A i \in 1..Len(clean_df) :
            LET d == DateOf(clean_df[i].row)
                OnDay(row) == DateOf(row) = d
                IsDaily(x) == /\ x.region = "ALL" /\ x.product = "ALL"
                              /\ x.calculation_date = d
                              /\ x.total_revenue = SumIf(clean_df, OnDay, 1)
                              /\ x.total_orders = CountIf(clean_df, OnDay)
            IN  Cardinality(SummaryRows(IsDaily)) = 1

\* C14: once the aggregation stage has written the summaries there is exactly
\* one row (product ALL) for each of North, South, East, West and Central, with
\* the revenue and count of the kept records of the region, 0 and 0 for a
\* region without kept records.
C14_RegionZeroFill ==
    (aggregated # <<>> /\ aggregated[Len(aggregated)] = "basic") =>
        \A reg \in {"North", "South", "East", "West", "Central"} :
            LET IsRegion(x) == x.region = reg /\ x.product = "ALL"
                InRegion(row) == row.region = <<reg>>
            IN  /\ Cardinality(SummaryRows(IsRegion)) = 1
                /\ \A k \in SummaryRows(IsRegion) :
                      /\ analytics_summary[k].total_revenue = SumIf(clean_df, InRegion, 1)
                      /\ analytics_summary[k].total_orders = CountIf(clean_df, InRegion)
                      /\ CountIf(clean_df, InRegion) = 0
                           => /\ analytics_summary[k].total_revenue = 0
                              /\ analytics_summary[k].total_orders = 0

C14_Witness ==
    /\ pc = "aggregated"
    /\ { clean_df[i].row.region : i \in 1..Len(clean_df) } = { <<"North">>, <<"South">> }
    /\ \A reg \in {"East", "West", "Central"} :
          \E k \in 1..Len(analytics_summary) :
              /\ analytics_summary[k].region = reg
              /\ analytics_summary[k].total_revenue = 0
              /\ analytics_summary[k].total_orders = 0

\* C15: the (ALL, ALL) grand total of a successful run is the revenue and the
\* count of the accepted-kept records only; the batch [A valid 100, A valid 60,
\* empty id 20] gives 1 kept, 1 duplicate-dropped, 1 rejected as
\* MISSING_REQUIRED_FIELD, revenue 100 and 1 order.
C15_GrandTotal ==
    result.status = "SUCCESS" =>
        LET IsTotal(x) == x.region = "ALL" /\ x.product = "ALL"
            Kept(row) == TRUE
            Example ==
                /\ Len(source_file) = 3
                /\ source_file[1].order_id = <<"A">> /\ source_file[1].revenue = <<100>>
                /\ source_file[2].order_id = <<"A">> /\ source_file[2].revenue = <<60>>
                /\ source_file[3].order_id = <<"">>  /\ source_file[3].revenue = <<20>>
        IN  /\ Cardinality(SummaryRows(IsTotal)) = 1
            /\ \A k \in SummaryRows(IsTotal) :
                  /\ analytics_summary[k].total_revenue = SumIf(clean_df, Kept, 1)
                  /\ analytics_summary[k].total_orders = Len(clean_df)
                  /\ Example => /\ analytics_summary[k].total_revenue = 100
                                /\ analytics_summary[k].total_orders = 1
            /\ Example => /\ Indices(clean_df) = {0}
                          /\ Indices(valid_df) \ Indices(clean_df) = {1}
                          /\ Indices(invalid_df) = {2}
                          /\ Len(exceptions) = 1
                          /\ exceptions[1].error_category = "MISSING_REQUIRED_FIELD"

C15_Witness ==
    /\ result.status = "SUCCESS"
    /\ Len(source_file) = 3
    /\ source_file[1].order_id = <<"A">> /\ source_file[1].revenue = <<100>>
    /\ source_file[2].order_id = <<"A">> /\ source_file[2].revenue = <<60>>
    /\ source_file[3].order_id = <<"">>  /\ source_file[3].revenue = <<20>>
    /\ \E k \in 1..Len(analytics_summary) :
          /\ analytics_summary[k].region = "ALL" /\ analytics_summary[k].product = "ALL"
          /\ analytics_summary[k].total_revenue = 100

\* C16: after aggregation there is exactly one row (region ALL) per product of
\* the reference product list, and the row of product P totals exactly the kept
\* records whose product is P.
C16_ProductRows ==
    pc \in {"aggregated", "returned"} /\ result.status # "FAILED" =>
        \A P \in {"Tomato Ketchup 500g", "Chicken Biryani Ready Meal", "Paneer 200g",
                  "Potato Chips 50g", "Mango Juice 1L"} :
            LET IsProduct(x) == x.region = "ALL" /\ x.product = P
                OfProduct(row) == row.product = <<P>>
            IN  /\ Cardinality(SummaryRows(IsProduct)) = 1
                /\ \A k \in SummaryRows(IsProduct) :
                      /\ analytics_summary[k].total_revenue = SumIf(clean_df, OfProduct, 1)
                      /\ analytics_summary[k].total_orders = CountIf(clean_df, OfProduct)

\* C20: a successful run leaves exactly one audit event for each of its six
\* stage transitions (ingested, validated, exceptions handled, transformed,
\* aggregated, done), each with the number of records the stage processed,
\* also when no record was rejected or none was kept.
C20_OneEventPerTransition ==
    result.status = "SUCCESS" =>
        LET stage_events == SelectSeq(audit_log,
                                      LAMBDA e : e.event_type # "PIPELINE_START")
        IN  /\ Len(stage_events) = 6
            /\ \A j, k \in 1..Len(stage_events) :
                  stage_events[j].event_type = stage_events[k].event_type => j = k
            /\ stage_events[1].record_count = Len(raw_df)
            /\ \A k \in 1..Len(stage_events) :
                  stage_events[k].record_count \in
                      {Len(raw_df), Len(invalid_df), Len(clean_df),
                       Len(clean_df) + Len(invalid_df)}

\* the messages of the failures a stage can raise
FailureMessages ==
    {"read_csv failed", "raw_sales write failed", "validation_results write failed",
     "exceptions write failed", "exceptions csv failed", "clean_sales write failed",
     "analytics_summary write failed", "analytics_summary delete failed",
     "analytics_summary insert failed", "validation_summary csv failed"}

\* C18: no exception leaves run_pipeline: whichever stage fails, and whether or
\* not the fallback aggregation fails too, the run returns a summary whose
\* status is SUCCESS or FAILED, and a FAILED summary carries the message of the
\* failure that ended the run.
C18_NoEscape ==
    /\ ~escaped
    /\ pc # "raised"
    /\ pc = "returned" <=> result.status \in {"SUCCESS", "FAILED"}
    /\ pc # "returned" => result.status = "NONE"
    /\ result.status = "FAILED" => result.error = exc /\ exc \in FailureMessages
    /\ result.status = "SUCCESS" => exc = ""

C18_Witness ==
    /\ result.status = "FAILED"
    /\ result.error = "clean_sales write failed"
    /\ aggregated # <<>>
    /\ aggregated[Len(aggregated)] = "deleted"

\* the stage of the orchestrator's state machine the run is in
Stage ==
    CASE pc = "start" -> "START"
      [] pc \in {"ingested", "records_validated"} -> "INGESTED"
      [] pc = "validated" -> "VALIDATED"
      [] pc = "exceptions_handled" -> "EXCEPTIONS_HANDLED"
      [] pc = "transformed" -> "TRANSFORMED"
      [] pc = "aggregated" -> "AGGREGATED"
      [] pc = "failed" -> "FAILED"
      [] pc = "returned" /\ result.status = "SUCCESS" -> "DONE"
      [] pc = "returned" /\ result.status = "FAILED" -> "FAILED"
      [] OTHER -> "NONE"

StageOrder ==
    <<"START", "INGESTED", "VALIDATED", "EXCEPTIONS_HANDLED", "TRANSFORMED",
      "AGGREGATED", "DONE">>

\* C19: every step of a run stays in its stage, moves to the next stage of
\* START, INGESTED, VALIDATED, EXCEPTIONS_HANDLED, TRANSFORMED, AGGREGATED, DONE,
\* or moves from a non-terminal stage to FAILED; DONE and FAILED are never left,
\* and in FAILED no regular stage changes the frames, the validation log, the
\* exceptions or the clean table.
C19_LinearOrder ==
    [][ /\ Stage' # "NONE"
        /\ \/ Stage' = Stage
           \/ \E k \in 1..(Len(StageOrder) - 1) :
                 Stage = StageOrder[k] /\ Stage' = StageOrder[k + 1]
           \/ Stage \notin {"DONE", "FAILED"} /\ Stage' = "FAILED"
        /\ Stage \in {"DONE", "FAILED"} => Stage' = Stage
        /\ Stage = "FAILED" =>
              UNCHANGED <<raw_df, valid_df, invalid_df, clean_df, validation_results,
                          exceptions, clean_sales>>
      ]_vars

C19_Witness ==
    /\ pc = "returned"
    /\ result.status = "FAILED"
    /\ exc = "analytics_summary insert failed"
    /\ \E k \in 1..Len(audit_log) : audit_log[k].event_type = "DATA_TRANSFORMATION"
    /\ exceptions # <<>>

\* the summary rows of this run in the table
RunRows == SelectSeq(analytics_summary, LAMBDA x : x.run_id = "run-1")

\* the key of a summary row
KeyOf(x) == <<x.region, x.product, x.calculation_date>>

\* C17: an aggregation repeated for the same run with the same input leaves
\* the table as the first one left it, the run never has two rows with the
\* same key, and the rows of other runs stay.
C17_IdempotentReplace ==
    [][ /\ (aggregated # <<>> /\ aggregated' = Append(aggregated, aggregated[Len(aggregated)]))
            => analytics_summary' = analytics_summary
        /\ \A j, k \in 1..Len(RunRows') :
              KeyOf(RunRows'[j]) = KeyOf(RunRows'[k]) => j = k
        /\ SelectSeq(analytics_summary', LAMBDA x : x.run_id # "run-1")
              = SelectSeq(analytics_summary, LAMBDA x : x.run_id # "run-1")
      ]_vars

C17_Witness ==
    /\ aggregated = <<"basic", "transformer", "transformer">>
    /\ Len(clean_df) = 2
    /\ Len(RunRows) = 7
    /\ Len(analytics_summary) = 8

\* C21: a run that ended FAILED returned the message of the failure and let no
\* exception out, whether its fallback aggregation failed or not; when the
\* fallback aggregation was the last to write, the run's summaries are exactly
\* the grand total, one row per region and one row per reference product, all
\* with revenue 0 and 0 orders.
C21_FallbackSwallowed ==
    result.status = "FAILED" =>
        /\ pc = "returned" /\ ~escaped
        /\ result.error = exc
        /\ (aggregated # <<>> /\ aggregated[Len(aggregated)] = "fallback") =>
              /\ { KeyOf(RunRows[k]) : k \in 1..Len(RunRows) }
                    = { <<"ALL", "ALL", current_date>> }
                      \cup { <<reg, "ALL", current_date>> :
                                reg \in {"North", "South", "East", "West", "Central"} }
                      \cup { <<"ALL", P, current_date>> :
                                P \in {"Tomato Ketchup 500g", "Chicken Biryani Ready Meal",
                                       "Paneer 200g", "Potato Chips 50g", "Mango Juice 1L"} }
              /\ Len(RunRows) = 11
              /\ \A k \in 1..Len(RunRows) :
                    RunRows[k].total_revenue = 0 /\ RunRows[k].total_orders = 0

C21_Witness ==
    /\ result.status = "FAILED"
    /\ result.error = "validation_summary csv failed"
    /\ aggregated = <<"transformer", "basic", "fallback">>
    /\ Len(analytics_summary) = 11

\* C22: every record the transformer receives has a quantity greater than 0,
\* so every stored clean row has a revenue per unit, and quantity 5 with
\* revenue 100 gives 20.00.
C22_QuantityPositive ==
    pc \in {"transformed", "aggregated", "returned"} =>
        /\ \A i \in 1..Len(clean_df) :
              /\ clean_df[i].row.quantity # NaN
              /\ clean_df[i].row.quantity[1] > 0
        /\ \A k \in 1..Len(clean_sales) :
              /\ clean_sales[k].revenue # NaN => clean_sales[k].revenue_per_unit # NaN
              /\ (clean_sales[k].quantity = <<5>> /\ clean_sales[k].revenue = <<100>>)
                    => clean_sales[k].revenue_per_unit = <<2000>>

\* C23: a successful run with no kept record stores no clean row and no
\* aggregate summary for the run.
C23_NoSummariesWhenEmpty ==
    (result.status = "SUCCESS" /\ clean_df = <<>>) =>
        /\ clean_sales = <<>>
        /\ RunRows = <<>>

\* C25: a failed write of the raw rows, of the validation outcomes or of the
\* exception records does not end the run FAILED.
C25_WriteFailureTolerated ==
    exc \in {"raw_sales write failed", "validation_results write failed",
             "exceptions write failed"}
        => pc # "failed" /\ result.status # "FAILED"

\* the accepted rows that an earlier accepted row with the same id precedes
DroppedDuplicates ==
    { i \in 1..Len(valid_df) :
        \E j \in 1..(i - 1) : valid_df[j].row.order_id = valid_df[i].row.order_id }

\* C28: the total of a SUCCESS summary is kept + rejected + duplicate-dropped
\* records, so kept + rejected equals the total only when no accepted record
\* repeats an identifier, and the VALIDATION_SUMMARY event counts kept +
\* rejected records.
C28_TotalCountsDropped ==
    result.status = "SUCCESS" =>
        /\ result.total_records = Len(source_file)
        /\ result.total_records
              = result.clean_records + result.invalid_records + Cardinality(DroppedDuplicates)
        /\ (result.clean_records + result.invalid_records = result.total_records)
              <=> DroppedDuplicates = {}
        /\ \A k \in 1..Len(audit_log) :
              audit_log[k].event_type = "VALIDATION_SUMMARY"
                  => audit_log[k].record_count
                        = result.clean_records + result.invalid_records

C28_Witness ==
    /\ result.status = "SUCCESS"
    /\ result.total_records = 3
    /\ result.clean_records = 1
    /\ result.invalid_records = 1
    /\ \E k \in 1..Len(audit_log) :
          audit_log[k].event_type = "VALIDATION_SUMMARY" /\ audit_log[k].record_count = 2

\* the labels of the rows of the batch that were rejected
RejectedIdx == Indices(invalid_df)

\* C29: among the rows of the batch only the accepted ones take part in
\* duplicate resolution: an accepted row is dropped exactly when an earlier
\* accepted row has its identifier, and flagged as duplicate exactly when
\* another accepted row has it, whatever the rejected rows hold.
C29_AcceptedOnly ==
    pc \notin {"start", "ingested", "records_validated", "aggregate"} /\ raw_df # <<>> =>
        \A i \in 1..Len(raw_df) :
            LET Accepted(j) == raw_df[j].idx \notin RejectedIdx
                SameId(j) == j # i /\ raw_df[j].row.order_id = raw_df[i].row.order_id
                IsDup(x) == x.control_type = "DUPLICATE_ORDER_ID" /\ x.status = "FAILED"
            IN  Accepted(i) =>
                  /\ raw_df[i].idx \in Indices(clean_df)
                        <=> ~ \E j \in 1..(i - 1) : Accepted(j) /\ SameId(j)
                  /\ Count(raw_df[i].idx, IsDup) > 0
                        <=> \E j \in 1..Len(raw_df) : Accepted(j) /\ SameId(j)

C29_Witness ==
    /\ pc = "validated"
    /\ Len(raw_df) = 3
    /\ raw_df[1].row.order_id = <<"A">> /\ raw_df[2].row.order_id = <<"A">>
    /\ raw_df[3].row.order_id = <<"A">>
    /\ Indices(invalid_df) = {0}
    /\ Indices(clean_df) = {1}
    /\ \E k \in 1..Len(validation_results) :
          /\ validation_results[k].record_id = 2
          /\ validation_results[k].control_type = "DUPLICATE_ORDER_ID"

\* C30: after a successful run the revenues of the five region rows add up to
\* the revenue of the (ALL, ALL) row, and their order counts to its orders.
C30_RegionsSumToTotal ==
    result.status = "SUCCESS" =>
        LET IsRegional(x) == /\ x.product = "ALL"
                             /\ x.region \in {"North", "South", "East", "West", "Central"}
            revenues == [ k \in 1..Len(RunRows) |->
                            IF IsRegional(RunRows[k]) THEN RunRows[k].total_revenue ELSE 0 ]
            orders   == [ k \in 1..Len(RunRows) |->
                            IF IsRegional(RunRows[k]) THEN RunRows[k].total_orders ELSE 0 ]
        IN  \E t \in 1..Len(RunRows) :
                /\ RunRows[t].region = "ALL" /\ RunRows[t].product = "ALL"
                /\ SumSeq(revenues) = RunRows[t].total_revenue
                /\ SumSeq(orders) = RunRows[t].total_orders
                /\ Cardinality({ k \in 1..Len(RunRows) : IsRegional(RunRows[k]) }) = 5

C30_Witness ==
    /\ result.status = "SUCCESS"
    /\ \E t \in 1..Len(RunRows) :
          /\ RunRows[t].region = "ALL" /\ RunRows[t].product = "ALL"
          /\ RunRows[t].total_revenue = 140 /\ RunRows[t].total_orders = 2
    /\ \E k \in 1..Len(RunRows) :
          RunRows[k].region = "North" /\ RunRows[k].total_revenue = 100
    /\ \E k \in 1..Len(RunRows) :
          RunRows[k].region = "South" /\ RunRows[k].total_revenue = 40

\* C24: a run on a file that lacks one of the six columns fails as a schema
\* error found by validate_schema: the validation log holds the
\* SCHEMA_VALIDATION / MISSING_COLUMNS outcome and no per-record outcome, and
\* the run ends FAILED with the schema error.
C24_SchemaError ==
    (~ (original_columns \subseteq csv_columns) /\ pc \in {"failed", "returned"}) =>
        /\ result.status # "SUCCESS"
        /\ exc = "Schema validation failed"
        /\ \E k \in 1..Len(validation_results) :
              /\ validation_results[k].stage = "SCHEMA_VALIDATION"
              /\ validation_results[k].control_type = "MISSING_COLUMNS"
        /\ \A k \in 1..Len(validation_results) :
              validation_results[k].stage = "SCHEMA_VALIDATION"

\* the summary a run on the batch returns when nothing but audit writes fails
ExpectedSummary ==
    LET v == validate_records(read_csv(source_file), <<>>)
        d == check_duplicates(v.valid, v.log)
    IN  [status |-> "SUCCESS", total_records |-> Len(source_file),
         clean_records |-> Len(d.df), invalid_records |-> Len(v.invalid)]

\* C26: a failed audit write never ends a run and never changes what it
\* returns: a run is in FAILED only with the message of a stage failure, and a
\* run that returns SUCCESS returns the status and counts of its batch,
\* whichever of its audit events reached the table.
C26_AuditFailureHarmless ==
    /\ pc = "failed" => exc \in FailureMessages
    /\ result.status = "FAILED" => result.error \in FailureMessages
    /\ result.status = "SUCCESS" => result = ExpectedSummary
    /\ (pc = "returned" /\ exc = "") => result.status = "SUCCESS"

C26_Witness ==
    /\ audit_db = "failing"
    /\ result.status = "SUCCESS"
    /\ result.clean_records = 2
    /\ audit_log = << AuditEvent("DATA_INGESTION", 2) >>

\* the rows of either table that carry the given run identifier
TaggedRows(rid) ==
    << SelectSeq(clean_sales, LAMBDA x : x.run_id = rid),
       SelectSeq(analytics_summary, LAMBDA x : x.run_id = rid) >>

\* C27: whatever the interleaving of two runs with distinct identifiers, a
\* step of one run leaves the rows of the other run in clean_sales and
\* analytics_summary as they were, and every row of the tables carries the
\* identifier of one of the two runs.
C27_RunIsolation ==
    [][ /\ pc' # pc => TaggedRows("run-2")' = TaggedRows("run-2")
        /\ pc' = pc => TaggedRows("run-1")' = TaggedRows("run-1")
        /\ \A k \in 1..Len(clean_sales') : clean_sales'[k].run_id \in {"run-1", "run-2"}
        /\ \A k \in 1..Len(analytics_summary') :
              analytics_summary'[k].run_id \in {"run-1", "run-2"}
      ]_vars

C27_Witness ==
    /\ pc = "returned"
    /\ Len(TaggedRows("run-1")[1]) = 2
    /\ Len(TaggedRows("run-2")[1]) = 1
    /\ Len(TaggedRows("run-1")[2]) = 11
    /\ Len(TaggedRows("run-2")[2]) = 4
    /\ clean_sales[1].run_id = "run-2"
    /\ analytics_summary[1].run_id = "run-2"

====
